---- MODULE Spec2Model ----
(***************************************************************************)
(* Model of the ApplicationFooter view component                           *)
(* (mage_ai/frontend/components/CommandCenter/ApplicationFooter/index.tsx).*)
(*                                                                         *)
(* The host framework owns the props, calls the component function to      *)
(* obtain a view tree (a render pass), and dispatches clicks to the        *)
(* onClick closures of the buttons of the last rendered tree.              *)
(*                                                                         *)
(* An optional JavaScript value is modelled as a sequence of length <= 1:  *)
(* <<>> is undefined/null, <<v>> is the present value v.                   *)
(***************************************************************************)
EXTENDS Integers, Sequences, FiniteSets, TLC

VARIABLES props, rendered, view, calls, lastOp

vars == <<props, rendered, view, calls, lastOp>>

-----------------------------------------------------------------------------
(* Bounds of the model.                                                    *)

MaxButtons == 3

-----------------------------------------------------------------------------
(* Optional values (?. and ?? of the source).                              *)

Undefined == <<>>

Some(v) == <<v>>

IsPresent(o) == o # Undefined

Get(o) == o[1]

\* Template-literal interpolation of an optional string: `${x}`.
Interpolate(o) == IF IsPresent(o) THEN Get(o) ELSE "undefined"

-----------------------------------------------------------------------------
(* Collaborators outside the component.                                    *)

\* Key-code -> display-symbol table; a code outside the table has no entry.
KEY_CODE_KEY_SYMBOL_MAPPING == [code \in {"CodeA", "CodeB"} |->
                                  IF code = "CodeA" THEN "Cmd" ELSE "K"]

getIcon(item) ==
    IF item.object_type = "pipeline" THEN "PipelineIcon" ELSE "BlockIcon"

getIconColor(item) ==
    IF item.object_type = "pipeline" THEN Some([accent |-> "blue"])
    ELSE Undefined

-----------------------------------------------------------------------------
(* Inputs the host can supply.                                             *)

ButtonSet ==
    { [label |-> "Run", tooltip |-> Some("Run pipeline"),
       display_settings |-> Some([color_uuid |-> Some("accent")]),
       keyboard_shortcuts |-> Some(<<Some(<<"CodeA", "CodeB">>)>>)],
      [label |-> "Cancel", tooltip |-> Undefined,
       display_settings |-> Undefined,
       keyboard_shortcuts |-> Undefined],
      [label |-> "Open", tooltip |-> Some("Open"),
       display_settings |-> Some([color_uuid |-> Undefined]),
       keyboard_shortcuts |->
           Some(<<Some(<<"CodeB", "CodeC", "CodeA">>), Undefined, Some(<<>>)>>)] }

ButtonLists == UNION { [1..n -> ButtonSet] : n \in 0..MaxButtons }

ApplicationSet ==
    {Undefined, Some([uuid |-> Undefined, buttons |-> Undefined])}
    \cup { Some([uuid |-> Some("app"), buttons |-> Some(l)]) : l \in ButtonLists }

\* The item prop is required by ApplicationProps: it is always present, its
\* fields may be absent.
ItemSet ==
    { Some([uuid |-> Some("item"), title |-> Some("Pipelines"),
            object_type |-> "pipeline", applications |-> Undefined]),
      Some([uuid |-> Undefined, title |-> Undefined,
            object_type |-> "block", applications |-> Undefined]) }

PropsSet ==
    [ application : ApplicationSet,
      applicationsRef : {"applicationsRef"},
      executeAction : {"executeAction"},
      focusedItemIndex : {Undefined, Some(0)},
      item : ItemSet,
      removeApplication : {"removeApplication"},
      refError : {"refError"} ]

-----------------------------------------------------------------------------
(* The component function.                                                 *)

\* application?.buttons
Buttons(application) ==
    IF IsPresent(application) THEN Get(application).buttons ELSE Undefined

\* application?.uuid
ApplicationUUID(application) ==
    IF IsPresent(application) THEN Get(application).uuid ELSE Undefined

\* application?.buttons?.length ?? 0
buttonsCount(application) ==
    IF IsPresent(Buttons(application)) THEN Len(Get(Buttons(application))) ELSE 0

\* KEY_CODE_KEY_SYMBOL_MAPPING[keyCode]
KeySymbol(keyCode) ==
    IF keyCode \in DOMAIN KEY_CODE_KEY_SYMBOL_MAPPING
    THEN Some(KEY_CODE_KEY_SYMBOL_MAPPING[keyCode])
    ELSE Undefined

\* Variant: the symbols of a sequence come out in reverse order.
KeyTextGroupReversed(arr) ==
    IF IsPresent(arr)
    THEN Some([j \in 1..Len(Get(arr)) |->
                  IF Get(arr)[Len(Get(arr)) + 1 - j] \in DOMAIN KEY_CODE_KEY_SYMBOL_MAPPING
                  THEN Some(KEY_CODE_KEY_SYMBOL_MAPPING[Get(arr)[Len(Get(arr)) + 1 - j]])
                  ELSE Undefined])
    ELSE Undefined

\* arr?.map(keyCode => KEY_CODE_KEY_SYMBOL_MAPPING[keyCode])
KeyTextGroup(arr) ==
    IF IsPresent(arr)
    THEN Some([j \in 1..Len(Get(arr)) |-> KeySymbol(Get(arr)[j])])
    ELSE Undefined

\* keyboardShortcuts?.map(arr => ...)
keyTextGroups(keyboardShortcuts) ==
    IF IsPresent(keyboardShortcuts)
    THEN Some([i \in 1..Len(Get(keyboardShortcuts)) |->
                  KeyTextGroup(Get(keyboardShortcuts)[i])])
    ELSE Undefined

\* Variant: the first button is the default one whenever there is a button.
IsDefaultAnyCount(idx, count) == idx = 0 /\ count >= 1

\* default={idx === 0 && buttonsCount >= 2}
IsDefault(idx, count) == idx = 0 /\ count >= 2

\* Variant: the count test is missing from the noBackground flag.
IsNoBackgroundFirst(idx, count) == idx = 0

\* noBackground={idx === 0 && buttonsCount >= 2}
IsNoBackground(idx, count) == idx = 0 /\ count >= 2

\* Variant: the spacing test is off by one.
HasSpacingAlways(idx) == idx >= 0

\* {idx >= 1 && <Spacing mr={PADDING_UNITS} />}
HasSpacing(idx) == idx >= 1

\* key={label}
ListKey(button, idx) == button.label

\* item?.uuid
ItemUUID(item) == IF IsPresent(item) THEN Get(item).uuid ELSE Undefined

\* Variant: the index is missing from the uuid.
ButtonUUIDNoIndex(p, idx) ==
    Interpolate(ItemUUID(p.item)) \o "-" \o Interpolate(ApplicationUUID(p.application))
        \o "-button"

\* uuid={`${item?.uuid}-${application?.uuid}-${idx}-button`}
ButtonUUID(p, idx) ==
    Interpolate(ItemUUID(p.item)) \o "-" \o Interpolate(ApplicationUUID(p.application))
        \o "-" \o ToString(idx) \o "-button"

\* Variant: the closure captures the first button of the list.
ClickBundleFirstButton(p, button) ==
    [ application |-> p.application,
      button |-> Get(Buttons(p.application))[1],
      executeAction |-> p.executeAction,
      focusedItemIndex |-> p.focusedItemIndex,
      item |-> p.item,
      refError |-> p.refError,
      removeApplication |-> p.removeApplication ]

\* The argument bundle the onClick closure passes to executeButtonActions.
ClickBundle(p, button) ==
    [ application |-> p.application,
      button |-> button,
      executeAction |-> p.executeAction,
      focusedItemIndex |-> p.focusedItemIndex,
      item |-> p.item,
      refError |-> p.refError,
      removeApplication |-> p.removeApplication ]

\* What a click on the control does: the calls its onClick makes.
OnClick(p, button) == <<ClickBundle(p, button)>>

\* One element of the right region: the callback of application.buttons.map.
RenderButton(p, button, idx) ==
    [ key |-> ListKey(button, idx),
      spacing |-> HasSpacing(idx),
      colorUUID |-> IF IsPresent(button.display_settings)
                    THEN Get(button.display_settings).color_uuid
                    ELSE Undefined,
      control |->
        [ default |-> IsDefault(idx, buttonsCount(p.application)),
          keyTextGroups |-> keyTextGroups(button.keyboard_shortcuts),
          noBackground |-> IsNoBackground(idx, buttonsCount(p.application)),
          onClick |-> OnClick(p, button),
          uuid |-> ButtonUUID(p, idx),
          children |-> button.label ] ]

\* Variant: the controls come out in reverse list order.
RightRegionReversed(p) ==
    IF IsPresent(Buttons(p.application))
    THEN [i \in 1..Len(Get(Buttons(p.application))) |->
             RenderButton(p,
                 Get(Buttons(p.application))[Len(Get(Buttons(p.application))) + 1 - i],
                 i - 1)]
    ELSE <<>>

\* application?.buttons?.map((button, idx) => ...)
RightRegion(p) ==
    IF IsPresent(Buttons(p.application))
    THEN [i \in 1..Len(Get(Buttons(p.application))) |->
             RenderButton(p, Get(Buttons(p.application))[i], i - 1)]
    ELSE <<>>

\* iconColor?.accent
IconFill(item) ==
    IF IsPresent(getIconColor(item)) THEN Some(Get(getIconColor(item)).accent)
    ELSE Undefined

\* Variant: the icon is not tinted and follows the title.
LeftRegionTitleFirst(item) ==
    << [el |-> "Text", component |-> "Text", fill |-> Undefined,
        children |-> item.title],
       [el |-> "div", component |-> "div", fill |-> Undefined,
        children |-> Undefined],
       [el |-> "Icon", component |-> getIcon(item), fill |-> Undefined,
        children |-> Undefined],
       [el |-> "Spacing", component |-> "Spacing", fill |-> Undefined,
        children |-> Undefined] >>

\* <Icon fill size/> <div/> <Text>{title}</Text> <Spacing/>, for the
\* destructured item.
LeftRegion(item) ==
    << [el |-> "Icon", component |-> getIcon(item), fill |-> IconFill(item),
        children |-> Undefined],
       [el |-> "div", component |-> "div", fill |-> Undefined,
        children |-> Undefined],
       [el |-> "Text", component |-> "Text", fill |-> Undefined,
        children |-> item.title],
       [el |-> "Spacing", component |-> "Spacing", fill |-> Undefined,
        children |-> Undefined] >>

\* Variant: application.buttons is read without optional access.
RenderThrowsPlainAccess(p) ==
    ~IsPresent(p.item) \/ ~IsPresent(p.application)
        \/ ~IsPresent(Get(p.application).buttons)

\* The places where the render pass dereferences a value without optional
\* access: the destructuring of item.  (The elements of application.buttons
\* are button descriptors, never null.)
RenderThrows(p) == ~IsPresent(p.item)

\* The component function: the view tree of one render pass, or the fault.
ApplicationFooter(p) ==
    IF RenderThrows(p)
    THEN [ status |-> "TypeError", left |-> <<>>, right |-> <<>> ]
    ELSE [ status |-> "ok",
           left |-> LeftRegion(Get(p.item)),
           right |-> RightRegion(p) ]

\* Variant: onClick={executeButtonActions({...})}, called while rendering.
RenderEffectsEager(p) ==
    [ props |-> p,
      calls |-> IF IsPresent(Buttons(p.application))
                THEN [i \in 1..Len(Get(Buttons(p.application))) |->
                         ClickBundle(p, Get(Buttons(p.application))[i])]
                ELSE <<>> ]

\* What a render pass does besides returning the tree: the props as it
\* leaves them and the calls of executeButtonActions it makes.  The body
\* assigns to no prop and only builds the onClick closures.
RenderEffects(p) == [ props |-> p, calls |-> <<>> ]

-----------------------------------------------------------------------------
(* The host: it mounts the component, renders it again with the props of   *)
(* its choice, and dispatches clicks to the committed view.                *)
(*   props    - the props objects as the last render pass left them        *)
(*   rendered - the props the last render pass was given                   *)
(*   view     - the committed view tree                                    *)
(*   calls    - the executeButtonActions calls made by the last step       *)
(*   lastOp   - the last step                                              *)

\* The footer is mounted for an item that has no application yet.
Init ==
    /\ rendered = [ application |-> Undefined,
                    applicationsRef |-> "applicationsRef",
                    executeAction |-> "executeAction",
                    focusedItemIndex |-> Some(0),
                    item |-> Some([uuid |-> Some("item"),
                                   title |-> Some("Pipelines"),
                                   object_type |-> "pipeline",
                                   applications |-> Undefined]),
                    removeApplication |-> "removeApplication",
                    refError |-> "refError" ]
    /\ view = ApplicationFooter(rendered)
    /\ props = RenderEffects(rendered).props
    /\ calls = RenderEffects(rendered).calls
    /\ lastOp = [op |-> "mount", idx |-> 0]

\* One render pass of the component over the props p the caller hands it.
Render(p) ==
    /\ rendered' = p
    /\ view' = ApplicationFooter(p)
    /\ props' = RenderEffects(p).props
    /\ calls' = RenderEffects(p).calls
    /\ lastOp' = [op |-> "render", idx |-> 0]

\* The user clicks the control at index idx of the committed view.
Click(idx) ==
    /\ idx + 1 \in 1..Len(view.right)
    /\ calls' = view.right[idx + 1].control.onClick
    /\ lastOp' = [op |-> "click", idx |-> idx]
    /\ UNCHANGED <<props, rendered, view>>

Next ==
    \/ \E p \in PropsSet : Render(p)
    \/ \E idx \in 0..(MaxButtons - 1) : Click(idx)

Spec == Init /\ [][Next]_vars

-----------------------------------------------------------------------------
(* Properties.  They are stated over the committed view and the props it   *)
(* was rendered from, read field by field.                                 *)

\* The button list the committed view was rendered from (empty when the
\* application or its list is absent).
RenderedList ==
    IF rendered.application # <<>> /\ rendered.application[1].buttons # <<>>
    THEN rendered.application[1].buttons[1]
    ELSE <<>>

RenderedItem == rendered.item[1]

Positions == 1..Len(view.right)

\* C1: the control at index idx has the default and the no-background
\* styling exactly when idx = 0 and the list has at least 2 buttons.
C1_DefaultOnlyFirstOfSeveral ==
    \A i \in Positions :
        /\ view.right[i].control.default
               <=> (i - 1 = 0 /\ Len(RenderedList) >= 2)
        /\ view.right[i].control.noBackground
               <=> (i - 1 = 0 /\ Len(RenderedList) >= 2)

C1_Witness ==
    /\ Len(view.right) = 3
    /\ view.right[1].control.default
    /\ view.right[1].control.noBackground
    /\ ~view.right[2].control.default
    /\ ~view.right[3].control.noBackground

\* C2: the right region has one control per button of the list, in list
\* order, the i-th showing the i-th label; none when the list is empty or
\* absent.
C2_OneControlPerButtonInOrder ==
    /\ Len(view.right) = Len(RenderedList)
    /\ \A i \in Positions :
           view.right[i].control.children = RenderedList[i].label

C2_Witness ==
    /\ Len(view.right) = 2
    /\ view.right[1].control.children = "Open"
    /\ view.right[2].control.children = "Run"

\* C3: a click makes exactly one call of executeButtonActions, with the
\* application, the clicked button, item, focusedItemIndex, refError and
\* removeApplication of the render that produced the control; any other step
\* makes no call.
C3_ClickCallsOnceWithRenderTimeBundle ==
    [][ /\ lastOp'.op = "click" =>
             /\ lastOp'.idx + 1 \in Positions
             /\ Len(calls') = 1
             /\ calls'[1].application = rendered.application
             /\ calls'[1].button = RenderedList[lastOp'.idx + 1]
             /\ calls'[1].item = rendered.item
             /\ calls'[1].focusedItemIndex = rendered.focusedItemIndex
             /\ calls'[1].refError = rendered.refError
             /\ calls'[1].removeApplication = rendered.removeApplication
        /\ lastOp'.op # "click" => calls' = <<>> ]_vars

C3_Witness ==
    /\ lastOp = [op |-> "click", idx |-> 1]
    /\ Len(calls) = 1
    /\ calls[1].button.label = "Cancel"
    /\ RenderedList[1].label = "Run"
    /\ calls[1].focusedItemIndex = <<>>
    /\ calls[1].item[1].title = <<>>

\* C4: a spacing element precedes the control at index idx exactly when
\* idx >= 1, so n >= 1 buttons have n - 1 spacing elements and 0 buttons none.
C4_SpacingBeforeAllButFirst ==
    /\ \A i \in Positions : view.right[i].spacing <=> (i - 1 >= 1)
    /\ Cardinality({i \in Positions : view.right[i].spacing})
           = IF Len(RenderedList) >= 1 THEN Len(RenderedList) - 1 ELSE 0

C4_Witness ==
    /\ Len(view.right) = 3
    /\ ~view.right[1].spacing
    /\ view.right[2].spacing
    /\ view.right[3].spacing

\* C5: the key-text groups of a control are the element-wise image of the
\* button's shortcut sequences under the key-code table: as many groups as
\* sequences, each as long as its sequence, the j-th symbol the table entry
\* of the j-th key code, and no symbol for a code outside the table.
C5_KeyTextGroupsAreTableImage ==
    \A i \in Positions :
        LET shortcuts == RenderedList[i].keyboard_shortcuts
            groups == view.right[i].control.keyTextGroups
        IN  /\ (shortcuts = <<>>) <=> (groups = <<>>)
            /\ shortcuts # <<>> =>
                 /\ Len(groups[1]) = Len(shortcuts[1])
                 /\ \A g \in 1..Len(shortcuts[1]) :
                      /\ (shortcuts[1][g] = <<>>) <=> (groups[1][g] = <<>>)
                      /\ shortcuts[1][g] # <<>> =>
                           /\ Len(groups[1][g][1]) = Len(shortcuts[1][g][1])
                           /\ \A j \in 1..Len(shortcuts[1][g][1]) :
                                LET code == shortcuts[1][g][1][j]
                                    symbol == groups[1][g][1][j]
                                IN  IF code \in DOMAIN KEY_CODE_KEY_SYMBOL_MAPPING
                                    THEN symbol = <<KEY_CODE_KEY_SYMBOL_MAPPING[code]>>
                                    ELSE symbol = <<>>

C5_Witness ==
    \E i \in Positions :
        /\ RenderedList[i].keyboard_shortcuts = Some(<<Some(<<"CodeA", "CodeB">>)>>)
        /\ view.right[i].control.keyTextGroups
               = Some(<<Some(<<Some("Cmd"), Some("K")>>)>>)

\* C6: a render pass over props with an absent application, button list,
\* display settings, shortcuts, shortcut sequence or item field completes:
\* the absent part gives no controls, no key texts or blank text.
C6_AbsentDataRendersNothing ==
    /\ view.status = "ok"
    /\ (rendered.application = <<>> \/ rendered.application[1].buttons = <<>>)
           => view.right = <<>>
    /\ RenderedItem.title = <<>> => view.left[3].children = <<>>
    /\ \A i \in Positions :
           /\ RenderedList[i].keyboard_shortcuts = <<>>
                  => view.right[i].control.keyTextGroups = <<>>
           /\ RenderedList[i].display_settings = <<>>
                  => view.right[i].colorUUID = <<>>

C6_Witness ==
    /\ view.status = "ok"
    /\ rendered.application = <<>>
    /\ RenderedItem.title = <<>>
    /\ RenderedItem.uuid = <<>>
    /\ view.right = <<>>
    /\ lastOp.op = "render"

C8_LeftRegionIconSpacerTitle ==
    /\ Len(view.left) >= 3
    /\ view.left[1].el = "Icon"
    /\ view.left[1].component = getIcon(RenderedItem)
    /\ view.left[1].fill = IF getIconColor(RenderedItem) = <<>> THEN <<>>
                           ELSE <<getIconColor(RenderedItem)[1].accent>>
    /\ view.left[2].el = "div"
    /\ view.left[3].el = "Text"
    /\ view.left[3].children = RenderedItem.title
    /\ RenderedItem.title = <<"Pipelines">> =>
           /\ view.left[1].component = "PipelineIcon"
           /\ view.left[1].fill = <<"blue">>

C8_Witness ==
    /\ lastOp.op = "render"
    /\ rendered.application = <<>>
    /\ view.left[1].component = "PipelineIcon"
    /\ view.left[1].fill = <<"blue">>
    /\ view.left[3].children = <<"Pipelines">>

\* C9: the list key of a control is its button's label, so the keys of one
\* render are pairwise distinct exactly when the labels are; the uuids of
\* the controls of one render are pairwise distinct for every list.
C9_KeysAreLabelsUuidsDistinct ==
    /\ \A i \in Positions : view.right[i].key = RenderedList[i].label
    /\ (\A i, j \in Positions : i # j => view.right[i].key # view.right[j].key)
           <=> (\A i, j \in 1..Len(RenderedList) :
                    i # j => RenderedList[i].label # RenderedList[j].label)
    /\ \A i, j \in Positions :
           i # j => view.right[i].control.uuid # view.right[j].control.uuid

C9_Witness ==
    /\ Len(view.right) = 2
    /\ view.right[1].key = view.right[2].key
    /\ view.right[1].control.uuid = "undefined-app-0-button"
    /\ view.right[2].control.uuid = "undefined-app-1-button"

\* C10: the default flag and the noBackground flag of every control are
\* equal.
C10_DefaultEqualsNoBackground ==
    \A i \in Positions :
        view.right[i].control.default = view.right[i].control.noBackground

C10_Witness ==
    \E i \in Positions :
        /\ view.right[i].control.default
        /\ view.right[i].control.noBackground
        /\ lastOp.op = "click"

====
